---- MODULE Spec2Model ----
(***************************************************************************)
(* Model of the token scanner (parser/lexer.go) and of the recursive-      *)
(* descent expression / type grammar (parser/parser_column.go).            *)
(*                                                                         *)
(* Text is a sequence of one-character strings; offsets are 0-based as in  *)
(* the Go code, so the byte at offset k is input[k + 1].                   *)
(***************************************************************************)
EXTENDS Integers, Sequences, FiniteSets, TLC

VARIABLES input,     \* Lexer.input, fixed at construction
          current,   \* Lexer.current
          lastToken, \* Lexer.lastToken (NilToken for nil)
          op,        \* the operation that ran last
          ret,       \* the value the last operation returned (token or node)
          err,       \* the error the last operation returned (NoErr for nil)
          status     \* "ok", "panic" (nil dereference) or "hang" (loop never ends)

vars == <<input, current, lastToken, op, ret, err, status>>

----------------------------------------------------------------------------
(* Bounds *)

MaxPieces == 4
MaxWords == 3
MaxOps == 3

----------------------------------------------------------------------------
(* Characters *)

lowerLetters == <<"a","b","c","d","e","f","g","h","i","j","k","l","m",
                  "n","o","p","q","r","s","t","u","v","w","x","y","z">>
upperLetters == <<"A","B","C","D","E","F","G","H","I","J","K","L","M",
                  "N","O","P","Q","R","S","T","U","V","W","X","Y","Z">>

LowerSet == {lowerLetters[k] : k \in 1..26}
UpperSet == {upperLetters[k] : k \in 1..26}

IsDigit(c) == c \in {"0","1","2","3","4","5","6","7","8","9"}

IsHexDigit(c) == IsDigit(c) \/ c \in {"a","b","c","d","e","f","A","B","C","D","E","F"}

IsIdentStart(c) == c \in LowerSet \/ c \in UpperSet \/ c = "_"

IsIdentPart(c) == IsIdentStart(c) \/ IsDigit(c)

\* The backquote character; a string of the model cannot hold it, so it is
\* written as a two-letter stand-in that equals no other character.
Backquote == "bq"

IsSpace(c) == c \in {" ", "\t", "\n", "\r"}

ToUpperChar(c) == IF c \in LowerSet
                  THEN upperLetters[CHOOSE k \in 1..26 : lowerLetters[k] = c]
                  ELSE c

ToUpper(s) == [k \in 1..Len(s) |-> ToUpperChar(s[k])]

KeywordAnd == <<"A","N","D">>
KeywordAs == <<"A","S">>
KeywordCase == <<"C","A","S","E">>
KeywordCast == <<"C","A","S","T">>
KeywordCodec == <<"C","O","D","E","C">>
KeywordDate == <<"D","A","T","E">>
KeywordDistinct == <<"D","I","S","T","I","N","C","T">>
KeywordElse == <<"E","L","S","E">>
KeywordEnd == <<"E","N","D">>
KeywordExtract == <<"E","X","T","R","A","C","T">>
KeywordFrom == <<"F","R","O","M">>
KeywordGlobal == <<"G","L","O","B","A","L">>
KeywordIlike == <<"I","L","I","K","E">>
KeywordIn == <<"I","N">>
KeywordInterval == <<"I","N","T","E","R","V","A","L">>
KeywordIs == <<"I","S">>
KeywordLike == <<"L","I","K","E">>
KeywordNot == <<"N","O","T">>
KeywordNull == <<"N","U","L","L">>
KeywordOr == <<"O","R">>
KeywordSelect == <<"S","E","L","E","C","T">>
KeywordThen == <<"T","H","E","N">>
KeywordTimestamp == <<"T","I","M","E","S","T","A","M","P">>
KeywordWhen == <<"W","H","E","N">>

keywords == {KeywordAnd, KeywordAs, KeywordCase, KeywordCast, KeywordCodec,
             KeywordDate, KeywordDistinct, KeywordElse, KeywordEnd,
             KeywordExtract, KeywordFrom, KeywordGlobal, KeywordIlike,
             KeywordIn, KeywordInterval, KeywordIs, KeywordLike, KeywordNot,
             KeywordNull, KeywordOr, KeywordSelect, KeywordThen,
             KeywordTimestamp, KeywordWhen}

intervalType == {<<"S","E","C","O","N","D">>, <<"M","I","N","U","T","E">>,
                 <<"H","O","U","R">>, <<"D","A","Y">>, <<"W","E","E","K">>,
                 <<"M","O","N","T","H">>, <<"Q","U","A","R","T","E","R">>,
                 <<"Y","E","A","R">>}

----------------------------------------------------------------------------
(* Tokens *)

TokenEOF == "<eof>"
TokenIdent == "<ident>"
TokenKeyword == "<keyword>"
TokenInt == "<int>"
TokenFloat == "<float>"
TokenString == "<string>"
TokenCast == "<cast>"
TokenArrow == "<arrow>"

NoErr == "nil"
ErrInvalidNumber == "invalid number"
ErrExponent == "exponent part should contain at least one digit"
ErrUnclosedIdent == "unclosed quoted identifier"
ErrInvalidString == "invalid string"
ErrDotAfter == "'.' should be after an Ident"
ErrDotFollow == "'.' should follow with an Ident"

NilToken == [Kind |-> "<nil>", String |-> <<>>, Pos |-> 0, End |-> 0,
             Base |-> 0, Unquoted |-> FALSE]

Token(kind, str, pos, end, base, unquoted) ==
    [Kind |-> kind, String |-> str, Pos |-> pos, End |-> end,
     Base |-> base, Unquoted |-> unquoted]

----------------------------------------------------------------------------
(* The scanner.  A scanner value l is [current, lastToken, hang]; every    *)
(* method returns the scanner it leaves behind, with the error in l.err    *)
(* where the method returns one.                                           *)

Lexer(cur, last) == [current |-> cur, lastToken |-> last, hang |-> FALSE, err |-> NoErr]

\* x := e followed by the statements that use x, as body[x]: the value of
\* a one-point function at its point.
With(body) == body[CHOOSE x \in DOMAIN body : TRUE]

skipN(l, n) == [l EXCEPT !.current = l.current + n]

slice(l, i, j) == SubSeq(input, l.current + i + 1, l.current + j)

peekN(l, n) == input[l.current + n + 1]

peekOk(l, n) == l.current + n < Len(input)

isKeyword(ident) == ident \in keywords

isEOF(l) == l.current >= Len(input)

Fail(l, e) == [l EXCEPT !.err = e]

Ok(l) == [l EXCEPT !.err = NoErr]

RECURSIVE skipSpace(_)
skipSpace(l) ==
    IF ~isEOF(l) /\ IsSpace(peekN(l, 0)) THEN skipSpace(skipN(l, 1)) ELSE l

\* The for loop of consumeNumber, from offset i on.
RECURSIVE numberLoop(_, _, _, _, _, _)
numberLoop(l, base, i, hasExp, tokenKind, hasNumberPart) ==
    IF ~peekOk(l, i)
    THEN [err |-> NoErr, i |-> i, tokenKind |-> tokenKind, hasNumberPart |-> hasNumberPart]
    ELSE LET c == peekN(l, i) IN
         IF base = 10 /\ IsDigit(c) THEN numberLoop(l, base, i + 1, hasExp, tokenKind, TRUE)
         ELSE IF base = 16 /\ IsHexDigit(c) THEN numberLoop(l, base, i + 1, hasExp, tokenKind, TRUE)
         ELSE IF c = "." THEN numberLoop(l, base, i + 1, hasExp, TokenFloat, TRUE)
         ELSE IF base # 16 /\ c \in {"e", "E", "p", "P"}
         THEN IF hasExp
              THEN [err |-> ErrInvalidNumber, i |-> i, tokenKind |-> tokenKind, hasNumberPart |-> TRUE]
              ELSE LET i1 == i + 1
                       i2 == IF peekOk(l, i1) /\ peekN(l, i1) \in {"+", "-"} THEN i1 + 1 ELSE i1
                   IN IF ~peekOk(l, i2) \/ ~IsDigit(peekN(l, i2))
                      THEN [err |-> ErrExponent, i |-> i2, tokenKind |-> tokenKind, hasNumberPart |-> TRUE]
                      ELSE numberLoop(l, base, i2, TRUE, tokenKind, TRUE)
         ELSE [err |-> NoErr, i |-> i, tokenKind |-> tokenKind, hasNumberPart |-> TRUE]

\* consumeNumber from line 77 on: the loop from offset i, and what follows it.
numberToken(l, base, i) ==
    With([r \in {numberLoop(l, base, i, FALSE, TokenInt, FALSE)} |->
    IF r.err # NoErr THEN Fail(l, r.err)
    ELSE IF (peekOk(l, r.i) /\ IsIdentPart(peekN(l, r.i))) \/ ~r.hasNumberPart
    THEN Fail(l, ErrInvalidNumber)
    ELSE Ok(skipN([l EXCEPT !.lastToken =
                      Token(r.tokenKind, slice(l, 0, r.i), l.current, l.current + r.i, base, FALSE)],
                  r.i))])

consumeNumber(l) ==
    With([i \in {IF peekN(l, 0) \in {"+", "-"} THEN 1 ELSE 0} |->
    IF peekN(l, 0) = "0" /\ peekOk(l, 1) /\ peekN(l, 1) = "x"
    THEN numberToken(l, 16, i + 2)
    ELSE numberToken(l, 10, i)])

RECURSIVE identEnd(_, _)
identEnd(l, i) == IF peekOk(l, i) /\ IsIdentPart(peekN(l, i)) THEN identEnd(l, i + 1) ELSE i

RECURSIVE quotedEnd(_, _)
quotedEnd(l, i) == IF peekOk(l, i) /\ peekN(l, i) # Backquote THEN quotedEnd(l, i + 1) ELSE i

\* consumeIdent from line 132 on: the scan from the cursor, which is past
\* the opening quote of a quoted identifier.
identToken(l, isUnquoted) ==
    With([i \in {IF ~isUnquoted
                 THEN identEnd(l, IF peekN(l, 0) = "$" THEN 1 ELSE 0)
                 ELSE quotedEnd(l, 0)} |->
    IF isUnquoted /\ (~peekOk(l, i) \/ peekN(l, i) # Backquote)
    THEN Fail(l, ErrUnclosedIdent)
    ELSE With([str \in {slice(l, 0, i)} |->
         Ok(skipN([l EXCEPT !.lastToken =
                      Token(IF ~isUnquoted /\ isKeyword(ToUpper(str))
                            THEN TokenKeyword ELSE TokenIdent,
                            str, l.current, l.current + i, 0, isUnquoted)],
                  IF isUnquoted THEN i + 1 ELSE i))])])

consumeIdent(l) ==
    IF peekOk(l, 0) /\ peekN(l, 0) = Backquote
    THEN identToken(skipN(l, 1), TRUE)
    ELSE identToken(l, FALSE)

RECURSIVE lineEnd(_, _)
lineEnd(l, i) ==
    IF peekOk(l, i) /\ peekN(l, i) # "\r" /\ peekN(l, i) # "\n" THEN lineEnd(l, i + 1) ELSE i

consumeSingleLineComment(l) == skipN(l, 2 + lineEnd(skipN(l, 2), 0) + 1)

\* The loop of consumeMultiLineComment tests isEOF on the cursor, which the
\* loop never moves: it ends only at a "*/", so without one it runs on
\* (hang) unless the cursor was at the end of input before the first pass.
HasClose(l) == \E i \in 0..Len(input) :
                   peekOk(l, i + 1) /\ peekN(l, i) = "*" /\ peekN(l, i + 1) = "/"

CloseAt(l) == CHOOSE i \in 0..Len(input) :
                  /\ peekOk(l, i + 1) /\ peekN(l, i) = "*" /\ peekN(l, i + 1) = "/"
                  /\ \A j \in 0..(i - 1) :
                         ~(peekOk(l, j + 1) /\ peekN(l, j) = "*" /\ peekN(l, j + 1) = "/")

\* consumeMultiLineComment from line 178 on: the loop.
commentLoop(l) ==
    IF isEOF(l) THEN l
    ELSE IF HasClose(l) THEN skipN(l, CloseAt(l) + 2)
    ELSE [l EXCEPT !.hang = TRUE]

consumeMultiLineComment(l) == commentLoop(skipN(l, 2))

RECURSIVE skipComments(_)
skipComments(l) ==
    IF isEOF(l) \/ l.hang THEN l
    ELSE LET c == peekN(l, 0) IN
         IF c = "-"
         THEN IF peekOk(l, 1) /\ peekN(l, 1) = "-"
              THEN skipComments(consumeSingleLineComment(l))
              ELSE l
         ELSE IF c = "/"
         THEN IF peekOk(l, 1) /\ peekN(l, 1) = "*"
              THEN skipComments(consumeMultiLineComment(l))
              ELSE l
         ELSE IF c \in {"\r", "\n"} THEN skipComments(skipN(l, 1))
         ELSE l

RECURSIVE stringEnd(_, _, _)
stringEnd(l, i, endChar) ==
    IF peekOk(l, i) /\ peekN(l, i) # endChar THEN stringEnd(l, i + 1, endChar) ELSE i

consumeString(l, isSingleQuote) ==
    With([i \in {stringEnd(l, 1, IF isSingleQuote THEN "'" ELSE "\"")} |->
    IF ~peekOk(l, i) THEN Fail(l, ErrInvalidString)
    ELSE Ok(skipN([l EXCEPT !.lastToken =
                      Token(TokenString, slice(l, 1, i), l.current + 1, l.current + i, 0, FALSE)],
                  i + 1))])

\* A token made of the n characters at the cursor.
fixedToken(l, kind, n) ==
    Ok(skipN([l EXCEPT !.lastToken = Token(kind, slice(l, 0, n), l.current, l.current + n, 0, FALSE)], n))

\* TokenKind(l.slice(0, 2)): the kind of an operator token is its text.
pairKind(l) == peekN(l, 0) \o peekN(l, 1)

isPairOperator(l) ==
    \/ peekN(l, 0) = "|" /\ peekOk(l, 1) /\ peekN(l, 1) = "|"
    \/ peekN(l, 0) = "<" /\ peekOk(l, 1) /\ peekN(l, 1) = ">"
    \/ peekN(l, 0) = "=" /\ peekOk(l, 1) /\ peekN(l, 1) = "="
    \/ peekN(l, 0) # "|" /\ peekOk(l, 1) /\ peekN(l, 1) = "="

\* consumeToken from line 316 on: what follows the switch.
afterSwitch(l) ==
    IF l.lastToken # NilToken /\ l.lastToken.Kind = "." /\ ~IsIdentStart(peekN(l, 0))
    THEN Fail(l, ErrDotFollow)
    ELSE IF IsIdentStart(peekN(l, 0)) THEN consumeIdent(l)
    ELSE fixedToken(l, peekN(l, 0), 1)

\* The switch of consumeToken on the character at the cursor: it returns
\* from consumeToken, or it breaks and consumeToken goes on after it.
Return(l) == [return |-> TRUE, l |-> l]

Break == [return |-> FALSE]

tokenSwitch(l) ==
    With([c \in {peekN(l, 0)} |->
    IF c \in {">", "<", "!", "=", "|"}
    THEN IF isPairOperator(l) THEN Return(fixedToken(l, pairKind(l), 2)) ELSE Break
    ELSE IF c \in {"+", "-"}
    THEN IF peekOk(l, 1) /\ IsDigit(peekN(l, 1)) THEN Return(consumeNumber(l))
         ELSE IF peekOk(l, 1) /\ peekN(l, 1) = ">" THEN Return(fixedToken(l, TokenArrow, 2))
         ELSE Break
    ELSE IF IsDigit(c) THEN Return(consumeNumber(l))
    ELSE IF c \in {Backquote, "$"} THEN Return(consumeIdent(l))
    ELSE IF c = "'" THEN Return(consumeString(l, TRUE))
    ELSE IF c = "\"" THEN Return(consumeString(l, FALSE))
    ELSE IF c = ":"
    THEN IF peekOk(l, 1) /\ peekN(l, 1) = ":" THEN Return(fixedToken(l, TokenCast, 2))
         ELSE Break
    ELSE IF c = "."
    THEN IF peekOk(l, 1) /\ IsDigit(peekN(l, 1)) THEN Return(consumeNumber(l))
         ELSE IF l.lastToken # NilToken /\ l.lastToken.Kind # TokenIdent
         THEN Return(Fail(l, ErrDotAfter))
         ELSE Break
    ELSE Break])

\* consumeToken from line 254 on: the cursor is past spaces and comments.
scanToken(l) ==
    IF isEOF(l) THEN Ok(l)
    ELSE With([s \in {tokenSwitch(l)} |-> IF s.return THEN s.l ELSE afterSwitch(l)])

consumeToken(l0) ==
    With([l \in {skipComments([skipSpace(l0) EXCEPT !.lastToken = NilToken])} |->
    IF l.hang THEN l ELSE scanToken(skipSpace(l))])

\* peekToken returns <<token, err>>; the scanner it leaves behind is .l
peekToken(l) ==
    With([c \in {consumeToken(l)} |->
    IF c.err # NoErr \/ c.hang
    THEN [l |-> c, token |-> NilToken, err |-> c.err]
    ELSE [l |-> [c EXCEPT !.lastToken = l.lastToken, !.current = l.current],
          token |-> c.lastToken, err |-> NoErr]])

----------------------------------------------------------------------------
(* The grammar driver.  The parser state is the scanner (its cached last   *)
(* token is the current token); every parse function returns              *)
(* [l, node, err]: the scanner it leaves behind, the node and the error.   *)
(* AST nodes carry their variant fields; position fields are left out.     *)
(* A nil dereference is the error ErrPanic, which no caller handles.       *)

opTypeEQ == "="
opTypeLT == "<"
opTypeLE == "<="
opTypeGE == ">="
opTypeGT == ">"
opTypeDoubleEQ == "=="
opTypeNE == "!="
opTypeQuery == "?"
opTypePlus == "+"
opTypeMinus == "-"
opTypeMul == "*"
opTypeDiv == "/"
opTypeMod == "%"
opTypeAnd == "AND"
opTypeOr == "OR"

ErrPanic == "panic: nil pointer dereference"
ErrUnexpected == "unexpected token kind"
ErrExpectedKind == "expected token kind"
ErrExpectedKeyword == "expected keyword"
ErrAfterNot == "expected IN, LIKE or ILIKE after NOT"
ErrUnknownInterval == "unknown interval type"

NilNode == [type |-> "nil"]

Res(l, node, e) == [l |-> l, node |-> node, err |-> e]

\* string(text): the Go string made of the characters of a text
RECURSIVE Str(_)
Str(s) == IF s = <<>> THEN "" ELSE Head(s) \o Str(Tail(s))

\* p.lexer.consumeToken() as the parser calls it; a scanner that hangs
\* never returns, so nothing runs after it.
advance(l) == IF l.hang THEN l ELSE consumeToken(l)

last(l) == l.lastToken

lastTokenKind(l) == IF last(l) = NilToken THEN TokenEOF ELSE last(l).Kind

matchTokenKind(l, kind) == lastTokenKind(l) = kind

matchKeyword(l, keyword) ==
    matchTokenKind(l, TokenKeyword) /\ ToUpper(last(l).String) = ToUpper(keyword)

tryConsumeTokenKind(l, kind) ==
    IF last(l) # NilToken /\ last(l).Kind = kind
    THEN [l |-> advance(l), token |-> last(l)]
    ELSE [l |-> l, token |-> NilToken]

consumeTokenKind(l, kind) ==
    With([t \in {tryConsumeTokenKind(l, kind)} |->
    IF t.token # NilToken THEN [l |-> t.l, token |-> t.token, err |-> NoErr]
    ELSE [l |-> l, token |-> NilToken, err |-> ErrExpectedKind]])

tryConsumeKeyword(l, keyword) ==
    IF matchKeyword(l, keyword)
    THEN [l |-> advance(l), token |-> last(l)]
    ELSE [l |-> l, token |-> NilToken]

consumeKeyword(l, keyword) ==
    IF matchKeyword(l, keyword)
    THEN [l |-> advance(l), err |-> NoErr]
    ELSE [l |-> l, err |-> ErrExpectedKeyword]

Ident(name) == [type |-> "Ident", Name |-> name]

parseIdent(l) ==
    With([t \in {consumeTokenKind(l, TokenIdent)} |->
    IF t.err # NoErr THEN Res(l, NilNode, t.err)
    ELSE Res(t.l, Ident(t.token.String), NoErr)])

parseString(l) ==
    With([t \in {consumeTokenKind(l, TokenString)} |->
    IF t.err # NoErr THEN Res(l, NilNode, t.err)
    ELSE Res(t.l, [type |-> "StringLiteral", Literal |-> t.token.String], NoErr)])

parseNumber(l) ==
    IF matchTokenKind(l, TokenInt) \/ matchTokenKind(l, TokenFloat)
    THEN Res(advance(l),
             [type |-> "NumberLiteral", Literal |-> last(l).String, Base |-> last(l).Base],
             NoErr)
    ELSE Res(l, NilNode, ErrExpectedKind)

parseLiteral(l) ==
    IF matchTokenKind(l, TokenInt) \/ matchTokenKind(l, TokenFloat) THEN parseNumber(l)
    ELSE IF matchTokenKind(l, TokenString) THEN parseString(l)
    ELSE Res(l, NilNode, ErrExpectedKind)

BinaryExpr(left, operation, right, hasNot, hasGlobal) ==
    [type |-> "BinaryExpr", LeftExpr |-> left, Operation |-> operation,
     RightExpr |-> right, HasNot |-> hasNot, HasGlobal |-> hasGlobal]

RECURSIVE parseExpr(_), parseOrExpr(_), orLoop(_, _), parseAndExpr(_), andLoop(_, _),
          parseNotExpr(_), parseIsOrNotNull(_), parseCompareExpr(_),
          parseAddSubExpr(_), addSubLoop(_, _), parseTernaryExpr(_, _),
          parseMulDivModExpr(_), mulDivModLoop(_, _), parseColumnExtractExpr(_),
          parseUnaryExpr(_), parseColumnExpr(_), parseColumnCastExpr(_),
          parseColumnExprListWithTerm(_, _), exprListLoop(_, _, _),
          parseColumnExprInterval(_), parseColumnArgList(_), argListLoop(_, _),
          parseFunctionParams(_), parseArrayParams(_), parseColumnCaseExpr(_),
          whenLoop(_, _), parseIdentOrFunction(_),
          parseColumnType(_), parseComplexType(_, _), complexLoop(_, _),
          parseColumnExprListWithRoundBracket(_),
          parseColumnExprListWithSquareBracket(_), Parser(_, _)

ErrHang == "scanner never returned"
ErrSubQuery == "sub-query"

\* The external statement parser, entered at "(" SELECT: opaque here.
parseSelectQuery(l) == Res(l, NilNode, ErrSubQuery)

\* The external column-definition-list parser of Nested(...): it consumes
\* up to, and not including, the closing parenthesis.
RECURSIVE parseTableColumns(_)
parseTableColumns(l) ==
    IF last(l) = NilToken \/ matchTokenKind(l, ")")
    THEN Res(l, [type |-> "TableColumns"], NoErr)
    ELSE parseTableColumns(advance(l))

\* p.name(pos): the method of the Parser called name; the mutually
\* recursive grammar methods call one another through it.
Parser(name, l) ==
    CASE name = "parseExpr" -> parseExpr(l)
      [] name = "parseOrExpr" -> parseOrExpr(l)
      [] name = "parseAndExpr" -> parseAndExpr(l)
      [] name = "parseNotExpr" -> parseNotExpr(l)
      [] name = "parseIsOrNotNull" -> parseIsOrNotNull(l)
      [] name = "parseCompareExpr" -> parseCompareExpr(l)
      [] name = "parseAddSubExpr" -> parseAddSubExpr(l)
      [] name = "parseMulDivModExpr" -> parseMulDivModExpr(l)
      [] name = "parseUnaryExpr" -> parseUnaryExpr(l)
      [] name = "parseColumnExpr" -> parseColumnExpr(l)
      [] name = "parseColumnExtractExpr" -> parseColumnExtractExpr(l)
      [] name = "parseColumnCastExpr" -> parseColumnCastExpr(l)
      [] name = "parseColumnExprInterval" -> parseColumnExprInterval(l)
      [] name = "parseColumnArgList" -> parseColumnArgList(l)
      [] name = "parseFunctionParams" -> parseFunctionParams(l)
      [] name = "parseArrayParams" -> parseArrayParams(l)
      [] name = "parseColumnCaseExpr" -> parseColumnCaseExpr(l)
      [] name = "parseIdentOrFunction" -> parseIdentOrFunction(l)
      [] name = "parseColumnType" -> parseColumnType(l)
      [] name = "parseColumnExprListWithRoundBracket" -> parseColumnExprListWithRoundBracket(l)
      [] name = "parseColumnExprListWithSquareBracket" -> parseColumnExprListWithSquareBracket(l)

parseExpr(l) ==
    With([r \in {Parser("parseOrExpr", l)} |->
    IF r.err # NoErr THEN r
    ELSE IF matchKeyword(r.l, KeywordAs)
    THEN With([a \in {parseIdent(advance(r.l))} |->
         IF a.err # NoErr THEN Res(a.l, NilNode, a.err)
         ELSE Res(a.l, [type |-> "AliasExpr", Expr |-> r.node, Alias |-> a.node], NoErr)])
    ELSE r])

\* orLoop with the right operand parsed at the OR level: OR nesting to the right.
orLoopRightAssoc(l, expr) ==
    With([t \in {tryConsumeKeyword(l, KeywordOr)} |->
    IF t.token = NilToken THEN Res(l, expr, NoErr)
    ELSE With([r \in {Parser("parseOrExpr", t.l)} |->
         IF r.err # NoErr THEN Res(r.l, NilNode, r.err)
         ELSE Res(r.l, BinaryExpr(expr, opTypeOr, r.node, FALSE, FALSE), NoErr)])])

orLoop(l, expr) ==
    With([t \in {tryConsumeKeyword(l, KeywordOr)} |->
    IF t.token = NilToken THEN Res(l, expr, NoErr)
    ELSE With([r \in {Parser("parseAndExpr", t.l)} |->
         IF r.err # NoErr THEN Res(r.l, NilNode, r.err)
         ELSE orLoop(r.l, BinaryExpr(expr, opTypeOr, r.node, FALSE, FALSE))])])

parseOrExpr(l) ==
    With([r \in {Parser("parseAndExpr", l)} |->
    IF r.err # NoErr THEN Res(r.l, NilNode, r.err) ELSE orLoop(r.l, r.node)])

andLoop(l, expr) ==
    With([t \in {tryConsumeKeyword(l, KeywordAnd)} |->
    IF t.token = NilToken THEN Res(l, expr, NoErr)
    ELSE With([r \in {Parser("parseNotExpr", t.l)} |->
         IF r.err # NoErr THEN Res(r.l, NilNode, r.err)
         ELSE andLoop(r.l, BinaryExpr(expr, opTypeAnd, r.node, FALSE, FALSE))])])

parseAndExpr(l) ==
    With([r \in {Parser("parseNotExpr", l)} |->
    IF r.err # NoErr THEN Res(r.l, NilNode, r.err) ELSE andLoop(r.l, r.node)])

parseNotExpr(l) ==
    With([t \in {tryConsumeKeyword(l, KeywordNot)} |->
    IF t.token = NilToken THEN Parser("parseIsOrNotNull", l)
    ELSE With([r \in {Parser("parseNotExpr", t.l)} |->
         IF r.err # NoErr THEN Res(r.l, NilNode, r.err)
         ELSE Res(r.l, [type |-> "NotExpr", Expr |-> r.node], NoErr)])])

parseIsOrNotNull(l) ==
    With([r \in {Parser("parseCompareExpr", l)} |->
    IF r.err # NoErr THEN Res(r.l, NilNode, r.err)
    ELSE With([is \in {tryConsumeKeyword(r.l, KeywordIs)} |->
         IF is.token = NilToken THEN r
         ELSE With([not \in {tryConsumeKeyword(is.l, KeywordNot)} |->
              With([null \in {consumeKeyword(not.l, KeywordNull)} |->
                 IF null.err # NoErr THEN Res(null.l, NilNode, null.err)
                 ELSE IF not.token # NilToken
                 THEN Res(null.l, [type |-> "IsNotNullExpr", Expr |-> r.node], NoErr)
                 ELSE Res(null.l, [type |-> "IsNullExpr", Expr |-> r.node], NoErr)])])])])

\* parseCompareExpr from line 166 on: the operator is the current token.
compareTail(l, expr, hasNot, hasGlobal) ==
    IF last(l) = NilToken THEN Res(l, NilNode, ErrPanic)
    ELSE With([r \in {Parser("parseAddSubExpr", advance(l))} |->
            IF r.err # NoErr THEN Res(r.l, NilNode, r.err)
            ELSE Res(r.l, BinaryExpr(expr, Str(ToUpper(last(l).String)), r.node, hasNot, hasGlobal),
                     NoErr)])

parseCompareExpr(l0) ==
    With([e \in {Parser("parseAddSubExpr", l0)} |->
    IF e.err # NoErr THEN Res(e.l, NilNode, e.err)
    ELSE LET l == e.l IN
         IF matchTokenKind(l, "[")
         THEN With([a \in {Parser("parseArrayParams", l)} |->
              IF a.err # NoErr THEN Res(a.l, NilNode, a.err)
              ELSE Res(a.l, [type |-> "ObjectParams", Object |-> e.node, Params |-> a.node], NoErr)])
         ELSE IF \/ \E k \in {opTypeEQ, opTypeLT, opTypeLE, opTypeGE, opTypeGT,
                              opTypeDoubleEQ, opTypeNE, "<>", opTypeQuery} : matchTokenKind(l, k)
                 \/ \E k \in {KeywordIn, KeywordLike, KeywordIlike} : matchKeyword(l, k)
         THEN compareTail(l, e.node, FALSE, FALSE)
         ELSE IF matchKeyword(l, KeywordGlobal)
         THEN compareTail(advance(l), e.node, FALSE, TRUE)
         ELSE IF matchKeyword(l, KeywordNot)
         THEN With([l1 \in {advance(l)} |->
              IF \E k \in {KeywordIn, KeywordLike, KeywordIlike} : matchKeyword(l1, k)
              THEN compareTail(l1, e.node, TRUE, FALSE)
              ELSE Res(l1, NilNode, ErrAfterNot)])
         ELSE e])

addSubLoop(l, expr) ==
    IF matchTokenKind(l, opTypePlus) \/ matchTokenKind(l, opTypeMinus)
    THEN With([r \in {Parser("parseMulDivModExpr", advance(l))} |->
         IF r.err # NoErr THEN Res(r.l, NilNode, r.err)
         ELSE addSubLoop(r.l, BinaryExpr(expr, lastTokenKind(l), r.node, FALSE, FALSE))])
    ELSE Res(l, expr, NoErr)

parseAddSubExpr(l) ==
    With([r \in {Parser("parseMulDivModExpr", l)} |->
    IF r.err # NoErr THEN Res(r.l, NilNode, r.err) ELSE addSubLoop(r.l, r.node)])

parseTernaryExpr(l, condition) ==
    With([q \in {consumeTokenKind(l, "?")} |->
    IF q.err # NoErr THEN Res(q.l, NilNode, q.err)
    ELSE With([t \in {Parser("parseExpr", q.l)} |->
         IF t.err # NoErr THEN Res(t.l, NilNode, t.err)
         ELSE With([c \in {consumeTokenKind(t.l, ":")} |->
              IF c.err # NoErr THEN Res(c.l, NilNode, c.err)
              ELSE With([f \in {Parser("parseExpr", c.l)} |->
                   IF f.err # NoErr THEN Res(f.l, NilNode, f.err)
                   ELSE Res(f.l, [type |-> "TernaryExpr", Condition |-> condition,
                                  TrueExpr |-> t.node, FalseExpr |-> f.node], NoErr)])])])])

mulDivModLoop(l, expr) ==
    IF matchTokenKind(l, opTypeQuery) THEN parseTernaryExpr(l, expr)
    ELSE IF \E k \in {opTypeMul, opTypeDiv, opTypeMod, TokenArrow, TokenCast} : matchTokenKind(l, k)
    THEN With([r \in {Parser("parseUnaryExpr", advance(l))} |->
         IF r.err # NoErr THEN Res(r.l, NilNode, r.err)
         ELSE mulDivModLoop(r.l, BinaryExpr(expr, lastTokenKind(l), r.node, FALSE, FALSE))])
    ELSE Res(l, expr, NoErr)

parseMulDivModExpr(l) ==
    With([r \in {Parser("parseUnaryExpr", l)} |->
    IF r.err # NoErr THEN Res(r.l, NilNode, r.err) ELSE mulDivModLoop(r.l, r.node)])

parseColumnExtractExpr(l) ==
    With([k \in {consumeKeyword(l, KeywordExtract)} |->
    IF k.err # NoErr THEN Res(k.l, NilNode, k.err)
    ELSE With([p \in {consumeTokenKind(k.l, "(")} |->
    IF p.err # NoErr THEN Res(p.l, NilNode, p.err)
    ELSE With([ident \in {parseIdent(p.l)} |->
    IF ident.err # NoErr THEN Res(ident.l, NilNode, ident.err)
    ELSE IF ToUpper(ident.node.Name) \notin intervalType
    THEN Res(ident.l, NilNode, ErrUnknownInterval)
    ELSE With([f \in {consumeKeyword(ident.l, KeywordFrom)} |->
    IF f.err # NoErr THEN Res(f.l, NilNode, f.err)
    ELSE With([e \in {Parser("parseExpr", f.l)} |->
    IF e.err # NoErr THEN Res(e.l, NilNode, e.err)
    ELSE With([c \in {consumeKeyword(e.l, <<")">>)} |->
    IF c.err # NoErr THEN Res(c.l, NilNode, c.err)
    ELSE Res(c.l, [type |-> "ExtractExpr", Interval |-> ident.node, FromExpr |-> e.node],
             NoErr)])])])])])])

parseUnaryExpr(l) ==
    IF matchTokenKind(l, opTypePlus) \/ matchTokenKind(l, opTypeMinus) \/ matchKeyword(l, KeywordNot)
    THEN With([l1 \in {advance(l)} |->
         With([r \in {IF matchTokenKind(l1, TokenIdent) \/ matchTokenKind(l1, "(")
                       THEN Parser("parseExpr", l1)
                       ELSE Parser("parseColumnExpr", l1)} |->
         IF r.err # NoErr THEN Res(r.l, NilNode, r.err)
         ELSE Res(r.l, [type |-> "UnaryExpr", Kind |-> last(l).Kind, Expr |-> r.node], NoErr)])])
    ELSE Parser("parseColumnExpr", l)

parseColumnStar(l) ==
    With([t \in {consumeTokenKind(l, "*")} |->
    IF t.err # NoErr THEN Res(t.l, NilNode, t.err)
    ELSE Res(t.l, Ident(<<"*">>), NoErr)])

parseColumnExpr(l) ==
    IF matchKeyword(l, KeywordInterval) THEN Parser("parseColumnExprInterval", l)
    ELSE IF matchKeyword(l, KeywordDate) \/ matchKeyword(l, KeywordTimestamp)
    THEN With([pk \in {peekToken(l)} |->
         IF pk.l.hang THEN Res(pk.l, NilNode, ErrHang)
         ELSE IF pk.err # NoErr THEN Res(pk.l, NilNode, pk.err)
         ELSE IF pk.token = NilToken THEN Res(pk.l, NilNode, ErrPanic)
         ELSE IF pk.token.Kind = TokenString THEN parseString(pk.l)
         ELSE Parser("parseIdentOrFunction", pk.l)])
    ELSE IF matchKeyword(l, KeywordCast) THEN Parser("parseColumnCastExpr", l)
    ELSE IF matchKeyword(l, KeywordCase) THEN Parser("parseColumnCaseExpr", l)
    ELSE IF matchKeyword(l, KeywordExtract) THEN Parser("parseColumnExtractExpr", l)
    ELSE IF matchTokenKind(l, TokenIdent) THEN Parser("parseIdentOrFunction", l)
    ELSE IF matchTokenKind(l, TokenString) THEN parseString(l)
    ELSE IF matchTokenKind(l, TokenInt) \/ matchTokenKind(l, TokenFloat) THEN parseNumber(l)
    ELSE IF matchTokenKind(l, "(")
    THEN With([pk \in {peekToken(l)} |->
         IF pk.l.hang THEN Res(pk.l, NilNode, ErrHang)
         ELSE IF /\ pk.token # NilToken
                 /\ pk.token.Kind = TokenKeyword
                 /\ ToUpper(pk.token.String) = KeywordSelect
         THEN parseSelectQuery(pk.l)
         ELSE Parser("parseFunctionParams", pk.l)])
    ELSE IF matchTokenKind(l, "*") THEN parseColumnStar(l)
    ELSE IF matchTokenKind(l, "[") THEN Parser("parseArrayParams", l)
    ELSE Res(l, NilNode, ErrUnexpected)

parseIdentOrFunction(l) ==
    With([ident \in {parseIdent(l)} |->
    IF ident.err # NoErr THEN Res(ident.l, NilNode, ident.err)
    ELSE IF matchTokenKind(ident.l, "(")
    THEN With([params \in {Parser("parseFunctionParams", ident.l)} |->
         IF params.err # NoErr THEN Res(params.l, NilNode, params.err)
         ELSE Res(params.l, [type |-> "FunctionExpr", Name |-> ident.node, Params |-> params.node], NoErr)])
    ELSE ident])

parseColumnCastExpr(l) ==
    With([k \in {consumeKeyword(l, KeywordCast)} |->
    IF k.err # NoErr THEN Res(k.l, NilNode, k.err)
    ELSE With([p \in {consumeTokenKind(k.l, "(")} |->
    IF p.err # NoErr THEN Res(p.l, NilNode, p.err)
    ELSE With([columnExpr \in {Parser("parseExpr", p.l)} |->
    IF columnExpr.err # NoErr THEN Res(columnExpr.l, NilNode, columnExpr.err)
    ELSE With([as \in {consumeKeyword(columnExpr.l, KeywordAs)} |->
    IF as.err # NoErr THEN Res(as.l, NilNode, as.err)
    ELSE With([asColumnType \in {Parser("parseColumnType", as.l)} |->
    IF asColumnType.err # NoErr THEN Res(asColumnType.l, NilNode, asColumnType.err)
    ELSE With([c \in {consumeTokenKind(asColumnType.l, ")")} |->
    IF c.err # NoErr THEN Res(c.l, NilNode, c.err)
    ELSE Res(c.l, [type |-> "CastExpr", Expr |-> columnExpr.node, AsType |-> asColumnType.node], NoErr)])])])])])])

\* The loop of parseColumnExprListWithTerm; the result's node is the item list.
exprListLoop(l, term, items) ==
    IF ~(~isEOF(l) \/ last(l) # NilToken) THEN Res(l, items, NoErr)
    ELSE IF term # "" /\ matchTokenKind(l, term) THEN Res(l, items, NoErr)
    ELSE With([e \in {Parser("parseExpr", l)} |->
         IF e.err # NoErr THEN Res(e.l, NilNode, e.err)
         ELSE With([comma \in {tryConsumeTokenKind(e.l, ",")} |->
              IF comma.token = NilToken THEN Res(e.l, Append(items, e.node), NoErr)
              ELSE exprListLoop(comma.l, term, Append(items, e.node))])])

parseColumnExprListWithTerm(l, term) ==
    With([d \in {tryConsumeKeyword(l, KeywordDistinct)} |->
    With([r \in {exprListLoop(d.l, term, <<>>)} |->
    IF r.err # NoErr THEN r
    ELSE Res(r.l, [type |-> "ColumnExprList", HasDistinct |-> d.token # NilToken,
                   Items |-> r.node], NoErr)])])

parseColumnExprListWithRoundBracket(l) == parseColumnExprListWithTerm(l, ")")

parseColumnExprListWithSquareBracket(l) == parseColumnExprListWithTerm(l, "]")

parseColumnExprInterval(l) ==
    With([k \in {consumeKeyword(l, KeywordInterval)} |->
    IF k.err # NoErr THEN Res(k.l, NilNode, k.err)
    ELSE With([e \in {Parser("parseExpr", k.l)} |->
    IF e.err # NoErr THEN Res(e.l, NilNode, e.err)
    ELSE With([ident \in {parseIdent(e.l)} |->
    IF ident.err # NoErr THEN Res(ident.l, NilNode, ident.err)
    ELSE IF ToUpper(ident.node.Name) \notin intervalType
    THEN Res(ident.l, NilNode, ErrUnknownInterval)
    ELSE Res(ident.l, [type |-> "IntervalExpr", Expr |-> e.node, Unit |-> ident.node], NoErr)])])])

argListLoop(l, items) ==
    IF ~isEOF(l) /\ ~matchTokenKind(l, ")")
    THEN With([e \in {Parser("parseExpr", l)} |->
         IF e.err # NoErr THEN Res(e.l, NilNode, e.err)
         ELSE With([comma \in {tryConsumeTokenKind(e.l, ",")} |->
              IF comma.token = NilToken THEN Res(e.l, Append(items, e.node), NoErr)
              ELSE argListLoop(comma.l, Append(items, e.node))])])
    ELSE Res(l, items, NoErr)

parseColumnArgList(l) ==
    With([p \in {consumeTokenKind(l, "(")} |->
    IF p.err # NoErr THEN Res(p.l, NilNode, p.err)
    ELSE With([d \in {tryConsumeKeyword(p.l, KeywordDistinct)} |->
    With([r \in {argListLoop(d.l, <<>>)} |->
    IF r.err # NoErr THEN r
    ELSE With([c \in {consumeTokenKind(r.l, ")")} |->
    IF c.err # NoErr THEN Res(c.l, NilNode, c.err)
    ELSE Res(c.l, [type |-> "ColumnArgList", Distinct |-> d.token # NilToken,
                   Items |-> r.node], NoErr)])])])])

parseFunctionParams(l) ==
    With([p \in {consumeTokenKind(l, "(")} |->
    IF p.err # NoErr THEN Res(p.l, NilNode, p.err)
    ELSE With([params \in {Parser("parseColumnExprListWithRoundBracket", p.l)} |->
    IF params.err # NoErr THEN Res(params.l, NilNode, params.err)
    ELSE With([c \in {consumeTokenKind(params.l, ")")} |->
    IF c.err # NoErr THEN Res(c.l, NilNode, c.err)
    ELSE IF matchTokenKind(c.l, "(")
    THEN With([a \in {Parser("parseColumnArgList", c.l)} |->
         IF a.err # NoErr THEN Res(a.l, NilNode, a.err)
         ELSE Res(a.l, [type |-> "ParamExprList", Items |-> params.node,
                        ColumnArgList |-> a.node], NoErr)])
    ELSE Res(c.l, [type |-> "ParamExprList", Items |-> params.node,
                   ColumnArgList |-> NilNode], NoErr)])])])

parseArrayParams(l) ==
    With([p \in {consumeTokenKind(l, "[")} |->
    IF p.err # NoErr THEN Res(p.l, NilNode, p.err)
    ELSE With([params \in {Parser("parseColumnExprListWithSquareBracket", p.l)} |->
    IF params.err # NoErr THEN Res(params.l, NilNode, params.err)
    ELSE With([c \in {consumeTokenKind(params.l, "]")} |->
    IF c.err # NoErr THEN Res(c.l, NilNode, c.err)
    ELSE Res(c.l, [type |-> "ArrayParamList", Items |-> params.node], NoErr)])])])

\* The WHEN loop of parseColumnCaseExpr; the result's node is the list of whens.
whenLoop(l, whens) ==
    IF matchKeyword(l, KeywordWhen)
    THEN With([w \in {Parser("parseExpr", advance(l))} |->
         IF w.err # NoErr THEN Res(w.l, NilNode, w.err)
         ELSE With([th \in {consumeKeyword(w.l, KeywordThen)} |->
         IF th.err # NoErr THEN Res(th.l, NilNode, th.err)
         ELSE With([t \in {Parser("parseExpr", th.l)} |->
         IF t.err # NoErr THEN Res(t.l, NilNode, t.err)
         ELSE whenLoop(t.l, Append(whens, [type |-> "WhenExpr", When |-> w.node, Then |-> t.node]))])])])
    ELSE Res(l, whens, NoErr)

parseColumnCaseExpr(l) ==
    With([k \in {consumeKeyword(l, KeywordCase)} |->
    IF k.err # NoErr THEN Res(k.l, NilNode, k.err)
    ELSE With([e \in {Parser("parseExpr", k.l)} |->
    IF e.err # NoErr THEN Res(e.l, NilNode, e.err)
    ELSE With([w \in {whenLoop(e.l, <<>>)} |->
    IF w.err # NoErr THEN w
    ELSE With([el \in {tryConsumeKeyword(w.l, KeywordElse)} |->
    With([x \in {IF el.token # NilToken
                  THEN Parser("parseExpr", el.l)
                  ELSE Res(w.l, NilNode, NoErr)} |->
    IF x.err # NoErr THEN Res(x.l, NilNode, x.err)
    ELSE With([end \in {consumeKeyword(x.l, KeywordEnd)} |->
    IF end.err # NoErr THEN Res(end.l, NilNode, end.err)
    ELSE Res(end.l, [type |-> "CaseExpr", Expr |-> e.node, Whens |-> w.node,
                     Else |-> x.node], NoErr)])])])])])])

parseEnumValueExpr(l) ==
    With([s \in {consumeTokenKind(l, TokenString)} |->
    IF s.err # NoErr THEN Res(s.l, NilNode, s.err)
    ELSE With([name \in {parseString(s.l)} |->
    IF name.err # NoErr THEN Res(name.l, NilNode, name.err)
    ELSE With([eq \in {consumeTokenKind(name.l, "=")} |->
    IF eq.err # NoErr THEN Res(eq.l, NilNode, eq.err)
    ELSE With([value \in {parseNumber(eq.l)} |->
    IF value.err # NoErr THEN Res(value.l, NilNode, value.err)
    ELSE Res(value.l, [type |-> "EnumValueExpr", Name |-> name.node, Value |-> value.node], NoErr)])])])])

RECURSIVE enumLoop(_, _)
enumLoop(l, enums) ==
    IF ~isEOF(l) /\ ~matchTokenKind(l, ")")
    THEN With([e \in {parseEnumValueExpr(l)} |->
         IF e.err # NoErr THEN Res(e.l, NilNode, e.err)
         ELSE With([comma \in {tryConsumeTokenKind(e.l, ",")} |->
              IF comma.token = NilToken THEN Res(e.l, Append(enums, e.node), NoErr)
              ELSE enumLoop(comma.l, Append(enums, e.node))])])
    ELSE Res(l, enums, NoErr)

parseEnumExpr(l) ==
    With([r \in {enumLoop(l, <<>>)} |->
    IF r.err # NoErr THEN r
    ELSE With([c \in {consumeTokenKind(r.l, ")")} |->
         IF c.err # NoErr THEN Res(c.l, NilNode, c.err)
         ELSE Res(c.l, [type |-> "EnumValueExprList", Enums |-> r.node], NoErr)])])

RECURSIVE paramsLoop(_, _)
paramsLoop(l, params) ==
    IF isEOF(l) THEN Res(l, params, NoErr)
    ELSE With([comma \in {tryConsumeTokenKind(l, ",")} |->
         IF comma.token = NilToken THEN Res(l, params, NoErr)
         ELSE With([size \in {parseLiteral(comma.l)} |->
              IF size.err # NoErr THEN Res(size.l, NilNode, size.err)
              ELSE paramsLoop(size.l, Append(params, size.node))])])

parseColumnTypeWithParams(l, name) ==
    With([param \in {parseLiteral(l)} |->
    IF param.err # NoErr THEN Res(param.l, NilNode, param.err)
    ELSE With([r \in {paramsLoop(param.l, <<param.node>>)} |->
    IF r.err # NoErr THEN r
    ELSE With([c \in {consumeTokenKind(r.l, ")")} |->
    IF c.err # NoErr THEN Res(c.l, NilNode, c.err)
    ELSE Res(c.l, [type |-> "TypeWithParamsExpr", Name |-> name, Params |-> r.node], NoErr)])])])

parseNestedType(l, name) ==
    With([columns \in {parseTableColumns(l)} |->
    IF columns.err # NoErr THEN Res(columns.l, NilNode, columns.err)
    ELSE With([c \in {consumeTokenKind(columns.l, ")")} |->
    IF c.err # NoErr THEN Res(c.l, NilNode, c.err)
    ELSE Res(c.l, [type |-> "NestedTypeExpr", Name |-> name, Columns |-> columns.node], NoErr)])])

\* The loop of parseComplexType; the result's node is the list of sub-types.
complexLoop(l, subTypes) ==
    IF ~isEOF(l) /\ ~matchTokenKind(l, ")")
    THEN With([e \in {Parser("parseColumnType", l)} |->
         IF e.err # NoErr THEN Res(e.l, NilNode, e.err)
         ELSE With([comma \in {tryConsumeTokenKind(e.l, ",")} |->
              IF comma.token = NilToken THEN Res(e.l, Append(subTypes, e.node), NoErr)
              ELSE complexLoop(comma.l, Append(subTypes, e.node))])])
    ELSE Res(l, subTypes, NoErr)

parseComplexType(l, name) ==
    With([r \in {complexLoop(l, <<>>)} |->
    IF r.err # NoErr THEN r
    ELSE With([c \in {consumeTokenKind(r.l, ")")} |->
         IF c.err # NoErr THEN Res(c.l, NilNode, c.err)
         ELSE Res(c.l, [type |-> "ComplexTypeExpr", Name |-> name, Params |-> r.node], NoErr)])])

parseColumnType(l0) ==
    With([ident \in {parseIdent(l0)} |->
    IF ident.err # NoErr THEN Res(ident.l, NilNode, ident.err)
    ELSE With([p \in {tryConsumeTokenKind(ident.l, "(")} |->
         LET l == p.l IN
            IF p.token = NilToken THEN Res(l, [type |-> "ScalarTypeExpr", Name |-> ident.node], NoErr)
            ELSE IF matchTokenKind(l, TokenIdent)
            THEN IF ident.node.Name = <<"N","e","s","t","e","d">>
                 THEN parseNestedType(l, ident.node)
                 ELSE parseComplexType(l, ident.node)
            ELSE IF matchTokenKind(l, TokenString)
            THEN With([pk \in {peekToken(l)} |->
                 IF pk.l.hang THEN Res(pk.l, NilNode, ErrHang)
                 ELSE IF pk.err = NoErr /\ pk.token = NilToken THEN Res(pk.l, NilNode, ErrPanic)
                 ELSE IF pk.err = NoErr /\ pk.token.Kind = "=" THEN parseEnumExpr(pk.l)
                 ELSE parseColumnTypeWithParams(pk.l, ident.node)])
            ELSE IF matchTokenKind(l, TokenInt) THEN parseColumnTypeWithParams(l, ident.node)
            ELSE Res(l, NilNode, ErrUnexpected)])])

tryParseCompressionLevel(l) ==
    With([p \in {tryConsumeTokenKind(l, "(")} |->
    IF p.token = NilToken THEN Res(l, NilNode, NoErr)
    ELSE With([num \in {parseNumber(p.l)} |->
    IF num.err # NoErr THEN Res(num.l, NilNode, num.err)
    ELSE With([c \in {consumeTokenKind(num.l, ")")} |->
    IF c.err # NoErr THEN Res(c.l, NilNode, c.err)
    ELSE num])])])

\* The switch of tryParseCompressionCodecs: the codecs that take a level.
isLevelCodec(name) == ToUpper(name) \in {<<"Z","S","T","D">>, <<"L","Z","4","H","C">>}

tryParseCompressionCodecs(l) ==
    With([k \in {tryConsumeKeyword(l, KeywordCodec)} |->
    IF k.token = NilToken THEN Res(l, NilNode, NoErr)
    ELSE With([p \in {consumeTokenKind(k.l, "(")} |->
    IF p.err # NoErr THEN Res(p.l, NilNode, p.err)
    ELSE With([name \in {parseIdent(p.l)} |->
    IF name.err # NoErr THEN Res(name.l, NilNode, name.err)
    ELSE With([level \in {IF isLevelCodec(name.node.Name)
                           THEN tryParseCompressionLevel(name.l)
                           ELSE Res(name.l, NilNode, NoErr)} |->
    IF level.err # NoErr THEN Res(level.l, NilNode, level.err)
    ELSE IF last(level.l) = NilToken THEN Res(level.l, NilNode, ErrPanic)
    ELSE With([c \in {consumeTokenKind(level.l, ")")} |->
    IF c.err # NoErr THEN Res(c.l, NilNode, c.err)
    ELSE Res(c.l, [type |-> "CompressionCodec", Name |-> name.node,
                   Level |-> level.node], NoErr)])])])])])

----------------------------------------------------------------------------
(* The scanner as a state machine: NewLexer(buf), then any sequence of     *)
(* consumeToken and peekToken calls.                                       *)

RECURSIVE Concat(_)
Concat(ss) == IF ss = <<>> THEN <<>> ELSE Head(ss) \o Concat(Tail(ss))

SeqsUpTo(S, n) == UNION {[1..k -> S] : k \in 0..n}

LexPieces == {<<" ">>, <<"\n">>, <<"a">>, <<"1">>, <<".">>, <<".", "2">>,
              <<"'">>, <<"(">>, <<"-">>, <<"-", "-">>, <<"0", "x">>,
              <<"/", "*">>, <<"/", "*", "*", "/">>, <<"+">>, <<">">>, <<"=">>, <<"|">>}

LexInputs == {Concat(ps) : ps \in SeqsUpTo(LexPieces, MaxPieces)}

\* NewLexer
NewLexer(buf) ==
    /\ input = buf
    /\ current = 0
    /\ lastToken = NilToken
    /\ op = "NewLexer"
    /\ ret = NilToken
    /\ err = NoErr
    /\ status = "ok"

InitLex == \E buf \in LexInputs : NewLexer(buf)

ConsumeToken ==
    /\ status = "ok"
    /\ LET l == consumeToken(Lexer(current, lastToken)) IN
         /\ current' = l.current
         /\ lastToken' = l.lastToken
         /\ err' = l.err
         /\ status' = IF l.hang THEN "hang" ELSE "ok"
    /\ op' = "consumeToken"
    /\ ret' = NilToken
    /\ UNCHANGED input

PeekToken ==
    /\ status = "ok"
    /\ LET r == peekToken(Lexer(current, lastToken)) IN
         /\ current' = r.l.current
         /\ lastToken' = r.l.lastToken
         /\ err' = r.err
         /\ ret' = r.token
         /\ status' = IF r.l.hang THEN "hang" ELSE "ok"
    /\ op' = "peekToken"
    /\ UNCHANGED input

NextLex == ConsumeToken \/ PeekToken

SpecLex == InitLex /\ [][NextLex]_vars

----------------------------------------------------------------------------
(* The grammar driver as a state machine: a parser is built over one input *)
(* and one entry point parses it, to a node or to the first error.  The    *)
(* entry point first scans the first token, as every caller of the grammar *)
(* does before it enters it.                                               *)

RECURSIVE Join(_)
Join(ws) == IF Len(ws) = 0 THEN <<>>
            ELSE IF Len(ws) = 1 THEN ws[1]
            ELSE ws[1] \o <<" ">> \o Join(Tail(ws))

wA == <<"a">>
w1 == <<"1">>
wStr == <<"'", "s", "'">>
wType == <<"I","n","t","8">>
wYear == <<"y","e","a","r">>
wZstd == <<"Z","S","T","D">>

Operands == {wA, w1}
Operators == {KeywordOr, KeywordAnd, <<"+">>, <<"-">>, <<"*">>, <<"/">>, <<"%">>}

\* operand (operator operand)*: the operands xs with the operators gs between them
Chain(xs, gs) ==
    [k \in 1..(2 * Len(xs) - 1) |-> IF k % 2 = 1 THEN xs[(k + 1) \div 2] ELSE gs[k \div 2]]

FreeWordSet == {wA, w1, wStr, wType, wZstd, <<"(">>, <<")">>, <<",">>, <<"=">>,
                KeywordDate, KeywordCodec, KeywordGlobal, KeywordIn, KeywordAs, KeywordNot}


CastWords(e, hasAs, t) ==
    <<KeywordCast, <<"(">>, e>> \o (IF hasAs THEN <<KeywordAs>> ELSE <<>>) \o <<t, <<")">>>>

ExtractWords(u, e) == <<KeywordExtract, <<"(">>, u, KeywordFrom, e, <<")">>>>

Units == {wYear, wA, <<"D","A","Y">>}

\* x GLOBAL t y: a comparison whose operator position holds t
GlobalWords(x, t, y) == <<x, KeywordGlobal, t, y>>

AfterGlobal == {KeywordIn, KeywordLike, KeywordIlike, wA, <<"+">>, <<"=">>}

FormWords == {CastWords(e, h, wType) : e \in Operands, h \in BOOLEAN}
             \cup {ExtractWords(u, e) : u \in Units, e \in Operands}
             \cup {GlobalWords(x, t, y) : x \in Operands, t \in AfterGlobal, y \in Operands}

NewParser(buf) ==
    /\ input = buf
    /\ current = 0
    /\ lastToken = NilToken
    /\ op = "NewParser"
    /\ ret = NilNode
    /\ err = NoErr
    /\ status = "ok"

\* The parser over a chain of up to MaxOps operators.
InitChains ==
    \E n \in 0..MaxOps : \E xs \in [1..(n + 1) -> Operands] : \E gs \in [1..n -> Operators] :
        NewParser(Join(Chain(xs, gs)))

\* The parser over a chain, over up to MaxWords free words, or over a
\* CAST, EXTRACT or GLOBAL form.
InitParse ==
    \/ InitChains
    \/ \E k \in 0..MaxWords : \E ws \in [1..k -> FreeWordSet] : NewParser(Join(ws))
    \/ \E ws \in FormWords : NewParser(Join(ws))

\* What an entry point leaves behind: the scanner, the node, the error.
Finish(r, name) ==
    /\ current' = r.l.current
    /\ lastToken' = r.l.lastToken
    /\ op' = name
    /\ ret' = r.node
    /\ err' = r.err
    /\ status' = IF r.l.hang THEN "hang" ELSE IF r.err = ErrPanic THEN "panic" ELSE "ok"
    /\ UNCHANGED input

ParseExpr ==
    /\ op = "NewParser"
    /\ Finish(parseExpr(advance(Lexer(current, lastToken))), "parseExpr")

ParseColumnType ==
    /\ op = "NewParser"
    /\ Finish(parseColumnType(advance(Lexer(current, lastToken))), "parseColumnType")

TryParseCompressionCodecs ==
    /\ op = "NewParser"
    /\ Finish(tryParseCompressionCodecs(advance(Lexer(current, lastToken))),
              "tryParseCompressionCodecs")

NextParse == ParseExpr \/ ParseColumnType \/ TryParseCompressionCodecs

SpecParse == InitParse /\ [][NextParse]_vars

\* The parser over the operator chains alone, parsed by parseExpr.
NextChains == ParseExpr

SpecChains == InitChains /\ [][NextChains]_vars

----------------------------------------------------------------------------
(* Properties of the scanner, under SpecLex *)

\* C1: peekToken leaves the scanner unchanged: after every peekToken that
\* returns, with a token or with an error, the cursor and the cached last
\* token are what they were before the call.
C1_PeekLeavesScannerUnchanged ==
    [][(op' = "peekToken" /\ status' = "ok")
          => (current' = current /\ lastToken' = lastToken)]_vars

Dots(str) == Cardinality({k \in 1..Len(str) : str[k] = "."})

\* C6: a numeric literal holds at most one '.': no scan returns a numeric
\* token whose text has a second '.'; such input is a lexical error.
C6_AtMostOneDot ==
    (op = "consumeToken" /\ lastToken.Kind \in {TokenInt, TokenFloat})
        => Dots(lastToken.String) <= 1

\* C7: scanning ends on an unterminated block comment: every consumeToken
\* returns, with the comment skipped up to the end of input and no token.
C7_UnterminatedCommentEnds ==
    /\ status # "hang"
    /\ (op = "consumeToken" /\ lastToken = NilToken /\ err = NoErr) => current >= Len(input)

\* C8: a '.' that is not followed by a digit is a lexical error whenever the
\* token scanned before it exists and is not an identifier: consumeToken
\* returns a '.' token only after an identifier token or after no token.
C8_DotOnlyAfterIdent ==
    [][(op' = "consumeToken" /\ lastToken'.Kind = "." /\ lastToken # NilToken)
          => lastToken.Kind = TokenIdent]_vars

\* The character right after the last token, "" at the end of input.
charAfterToken == IF lastToken.End < Len(input) THEN input[lastToken.End + 1] ELSE ""

\* C9: consumeToken skips the whole alternation of whitespace and comments
\* before a token: the token it returns is never the first character of a
\* comment opener ("/" of "/*", "-" of "--") that the skip stopped at.
C9_SkipsWholePrefix ==
    (op = "consumeToken" /\ lastToken # NilToken)
        => /\ ~(lastToken.Kind = "/" /\ charAfterToken = "*")
           /\ ~(lastToken.Kind = "-" /\ charAfterToken = "-")

RECURSIVE hexRunEnd(_)
hexRunEnd(k) == IF k < Len(input) /\ IsHexDigit(input[k + 1]) THEN hexRunEnd(k + 1) ELSE k

\* A sign, "0x" and at least one hexadecimal digit at offset k, the digit
\* run ending at the end of input or before a character that can be part
\* of neither a number nor an identifier.
SignedHexAt(k) ==
    /\ k + 4 <= Len(input)
    /\ input[k + 1] \in {"+", "-"}
    /\ input[k + 2] = "0"
    /\ input[k + 3] = "x"
    /\ IsHexDigit(input[k + 4])
    /\ LET e == hexRunEnd(k + 3) IN
         e < Len(input) => (~IsIdentPart(input[e + 1]) /\ input[e + 1] # ".")

\* C10: a signed hexadecimal literal at the cursor is scanned as exactly one
\* integer token of base 16 whose text is the whole literal.
C10_SignedHexIsOneToken ==
    [][(op' = "consumeToken" /\ status = "ok" /\ SignedHexAt(current))
          => /\ err' = NoErr
             /\ lastToken'.Kind = TokenInt
             /\ lastToken'.Base = 16
             /\ lastToken'.Pos = current
             /\ lastToken'.End = hexRunEnd(current + 3)
             /\ lastToken'.String = SubSeq(input, current + 1, hexRunEnd(current + 3))]_vars

\* The positions of a number token's text that hold a digit of its base,
\* after the sign and the 0x prefix.
numberDigits(tok) ==
    LET start == (IF tok.String # <<>> /\ tok.String[1] \in {"+", "-"} THEN 1 ELSE 0)
                 + (IF tok.Base = 16 THEN 2 ELSE 0)
    IN {k \in (start + 1)..Len(tok.String) :
            IF tok.Base = 16 THEN IsHexDigit(tok.String[k]) ELSE IsDigit(tok.String[k])}

\* C12: a numeric literal with no digit of its base is an error: every
\* number token consumeToken returns has at least one digit after its sign
\* and its 0x prefix.
C12_NumberHasDigit ==
    (op = "consumeToken" /\ err = NoErr /\ lastToken.Kind \in {TokenInt, TokenFloat})
        => numberDigits(lastToken) # {}

TwoCharOperators == {<<"|", "|">>, <<"<", ">">>, <<"=", "=">>, <<">", "=">>, <<"<", "=">>,
                     <<"!", "=">>, <<"-", ">">>, <<":", ":">>}

\* C13: the two-character operator tokens are ||, <>, ==, >=, <=, !=, ->
\* and ::, and no others: every two-character token consumeToken returns
\* that is not an identifier, a keyword, a number or a string has one of
\* these texts, and a token has the kind arrow exactly when its text is ->.
C13_TwoCharOperators ==
    (/\ op = "consumeToken" /\ err = NoErr /\ status = "ok" /\ lastToken # NilToken
     /\ lastToken.Kind \notin {TokenIdent, TokenKeyword, TokenInt, TokenFloat, TokenString})
        => /\ Len(lastToken.String) = 2 => lastToken.String \in TwoCharOperators
           /\ lastToken.Kind = TokenArrow <=> lastToken.String = <<"-", ">">>

\* C14: the cursor stays inside the input: after any sequence of
\* consumeToken and peekToken calls, also on input that ends inside a line
\* comment or a block comment, 0 <= current <= len(input).
C14_CursorWithinInput ==
    0 <= current /\ current <= Len(input)

----------------------------------------------------------------------------
(* Properties of the grammar, under SpecParse (C3: under SpecChains) *)

\* The words of a text: its maximal runs of characters other than a space.
RECURSIVE Split(_, _)
Split(text, word) ==
    IF text = <<>> THEN (IF word = <<>> THEN <<>> ELSE <<word>>)
    ELSE IF Head(text) = " "
    THEN (IF word = <<>> THEN <<>> ELSE <<word>>) \o Split(Tail(text), <<>>)
    ELSE Split(Tail(text), Append(word, Head(text)))

inputWords == Split(input, <<>>)

\* C2: every parse operation ends by returning a node or an error; none
\* crashes on an absent token.
C2_ParseNeverCrashes ==
    op \in {"parseExpr", "parseColumnType", "tryParseCompressionCodecs"} => status = "ok"

Leaf(w) == IF IsDigit(w[1])
           THEN [type |-> "NumberLiteral", Literal |-> w, Base |-> 10]
           ELSE Ident(w)

Level(w) == IF w = KeywordOr THEN 1
            ELSE IF w = KeywordAnd THEN 2
            ELSE IF w \in {<<"+">>, <<"-">>} THEN 3
            ELSE 4

IsChain(ws) ==
    /\ Len(ws) % 2 = 1
    /\ \A k \in 1..Len(ws) : IF k % 2 = 1 THEN ws[k] \in Operands ELSE ws[k] \in Operators

\* The tree of operand (operator operand)* under the precedence OR < AND <
\* + - < * / %, every level nesting to the left: the root is the last
\* operator of the loosest level present.
RECURSIVE ExpectedTree(_)
ExpectedTree(ws) ==
    IF Len(ws) = 1 THEN Leaf(ws[1])
    ELSE LET ops == {k \in 1..Len(ws) : k % 2 = 0}
             low == CHOOSE m \in 1..4 : /\ \E k \in ops : Level(ws[k]) = m
                                        /\ \A k \in ops : Level(ws[k]) >= m
             root == CHOOSE k \in ops : /\ Level(ws[k]) = low
                                        /\ \A j \in ops : Level(ws[j]) = low => j <= k
         IN BinaryExpr(ExpectedTree(SubSeq(ws, 1, root - 1)), Str(ws[root]),
                       ExpectedTree(SubSeq(ws, root + 1, Len(ws))), FALSE, FALSE)

\* C3: parseExpr gives operand (operator operand)* the tree of the
\* precedence OR < AND < + - < * / %, each level nesting to the left; so
\* "a AND b OR c" is Or(And(a,b),c), "a OR b AND c" is Or(a,And(b,c)) and
\* "1 + 2 * 3" is Add(1,Mul(2,3)).
C3_PrecedenceAndAssociativity ==
    (op = "parseExpr" /\ IsChain(inputWords))
        => (status = "ok" /\ err = NoErr /\ ret = ExpectedTree(inputWords))

C3_Witness ==
    /\ op = "parseExpr"
    /\ inputWords = <<wA, KeywordAnd, w1, KeywordOr, wA, KeywordOr, w1>>
    /\ ret = BinaryExpr(BinaryExpr(BinaryExpr(Ident(wA), opTypeAnd, Leaf(w1), FALSE, FALSE),
                                   opTypeOr, Ident(wA), FALSE, FALSE),
                        opTypeOr, Leaf(w1), FALSE, FALSE)

\* C4: parseColumnCastExpr on CAST ( e AS T ) returns the Cast node of
\* source expression e and target type T, and an error when AS is missing.
C4_CastParses ==
    \A e \in Operands : \A hasAs \in BOOLEAN :
        (op = "parseExpr" /\ inputWords = CastWords(e, hasAs, wType))
            => IF hasAs
               THEN /\ err = NoErr
                    /\ ret = [type |-> "CastExpr", Expr |-> Leaf(e),
                              AsType |-> [type |-> "ScalarTypeExpr", Name |-> Ident(wType)]]
               ELSE err # NoErr

\* C5: parseColumnExtractExpr on EXTRACT ( u FROM e ) returns the Extract
\* node of unit u and source e when the uppercased u is an interval unit,
\* and a syntax error when it is not.
C5_ExtractParses ==
    \A u \in Units : \A e \in Operands :
        (op = "parseExpr" /\ inputWords = ExtractWords(u, e))
            => IF ToUpper(u) \in intervalType
               THEN /\ err = NoErr
                    /\ ret = [type |-> "ExtractExpr", Interval |-> Ident(u), FromExpr |-> Leaf(e)]
               ELSE err # NoErr

\* C11: a binary node with HasGlobal set has the operation IN, LIKE or
\* ILIKE: after GLOBAL any other token is a syntax error, never an operator.
C11_GlobalOnlyBeforeInLike ==
    (op = "parseExpr" /\ ret.type = "BinaryExpr" /\ ret.HasGlobal)
        => ret.Operation \in {"IN", "LIKE", "ILIKE"}

====
